---- MODULE Spec2Model ----
(***************************************************************************)
(* Model of the browser-side audit tracker (RouteAuditTracker.tsx): the    *)
(* filter policy, the snapshot extractor, the record builder, the debounce *)
(* timers kept on the input elements, and the component's two effects      *)
(* (route effect, listener effect) with their cleanup.                     *)
(*                                                                         *)
(* Strings the code inspects character by character (className, text,      *)
(* value) are sequences of one-character strings; strings the code only    *)
(* compares whole (tag names, ids, types, paths) are TLA+ strings.         *)
(* Time is counted in ticks of 250 ms (debounceTime 500 is 2 ticks) and    *)
(* measured from the present: a timer holds the ticks it has left, a past  *)
(* event its age, and the present instant is 0.                            *)
(***************************************************************************)
EXTENDS Integers, Sequences, FiniteSets, TLC

\* ---------------------------------------------------------------- bounds
MaxTimers == 2      \* setTimeout calls (timer handles handed out)
MaxTextLen == 3     \* characters of a text handed to the snapshot extractor

\* ---------------------------------------------------------------- strings
EmptyMap == [k \in {} |-> k]

\* String.prototype.includes on character sequences
Includes(s, sub) ==
    \E i \in 0..(Len(s) - Len(sub)) : SubSeq(s, i + 1, i + Len(sub)) = sub

\* String.prototype.substring(0, n)
Substring0(s, n) ==
    IF n <= 0 THEN <<>> ELSE IF n >= Len(s) THEN s ELSE SubSeq(s, 1, n)

\* String.prototype.trim
Trim(s) ==
    LET idx == {i \in 1..Len(s) : s[i] # " "}
    IN IF idx = {} THEN <<>>
       ELSE LET lo == CHOOSE i \in idx : \A j \in idx : i <= j
                hi == CHOOSE i \in idx : \A j \in idx : i >= j
            IN SubSeq(s, lo, hi)

\* Element.classList: the whitespace-separated tokens of className
ClassList(s) ==
    { SubSeq(s, i, j) : <<i, j>> \in
        { p \in (1..Len(s)) \X (1..Len(s)) :
            /\ p[1] <= p[2]
            /\ \A k \in p[1]..p[2] : s[k] # " "
            /\ (p[1] = 1 \/ s[p[1] - 1] = " ")
            /\ (p[2] = Len(s) \/ s[p[2] + 1] = " ") } }

\* String.prototype.toLowerCase on the tag names of the document
ToLowerCase(t) ==
    CASE t = "BUTTON" -> "button"
      [] t = "A" -> "a"
      [] t = "DIV" -> "div"
      [] t = "SPAN" -> "span"
      [] t = "INPUT" -> "input"
      [] t = "TEXTAREA" -> "textarea"
      [] t = "FORM" -> "form"
      [] t = "BODY" -> "body"
      [] OTHER -> t

\* class names used by the document and the configurations
cls_btn == <<"b", "t", "n">>
cls_no_audit == <<"n", "o", "-", "a", "u", "d", "i", "t">>
cls_audit_skip == <<"a", "u", "d", "i", "t", "-", "s", "k", "i", "p">>
cls_clickable == <<"c", "l", "i", "c", "k", "a", "b", "l", "e">>
cls_button == <<"b", "u", "t", "t", "o", "n">>
cls_btn_primary == cls_btn \o <<"-", "p", "r", "i", "m", "a", "r", "y">>
cls_no_audits == cls_no_audit \o <<"s">>
Sp == <<" ">>

\* ---------------------------------------------------------------- document
\* The elements of the page: a static description each (the values of the
\* inputs are state, see `value').
El(tag, cls, id, text, attrs) ==
    [tagName |-> tag, className |-> cls, id |-> id, textContent |-> text,
     attrs |-> attrs]

Elements ==
    {"goBtn", "skipBtn", "primaryBtn", "auditsDiv", "icon", "optOutBtn",
     "roleDiv", "body", "testForm", "nameInput", "pwdInput"}

\* a second form, which opts out of tracking, with its hidden input
TokenFormElements == {"skipForm", "tokenInput"}
AllElements == Elements \cup TokenFormElements

\* an SVG element: its className is an SVGAnimatedString object, not a string
\* (the description holds the class attribute, which classList reads)
SvgElements == {"svgIcon"}
classNameIsString(e) == e \notin SvgElements

Describe(e) ==
    CASE e = "goBtn" ->
           El("BUTTON", cls_btn, "go", <<" ", "G", "o", " ">>, EmptyMap)
      [] e = "skipBtn" ->
           El("BUTTON", cls_btn \o Sp \o cls_no_audit, "", <<"S", "k", "i", "p">>,
              EmptyMap)
      [] e = "primaryBtn" ->
           El("BUTTON", cls_btn_primary, "", <<"B", "u", "y">>, EmptyMap)
      [] e = "auditsDiv" ->
           El("DIV", cls_no_audits \o Sp \o cls_clickable, "", <<"L", "o", "g">>,
              EmptyMap)
      [] e = "icon" ->
           El("SPAN", <<>>, "", <<>>, EmptyMap)
      [] e = "optOutBtn" ->
           El("BUTTON", cls_btn, "", <<"X">>, "data-no-audit" :> "")
      [] e = "roleDiv" ->
           El("DIV", <<>>, "menu", <<"M">>, "role" :> "button")
      [] e = "body" ->
           El("BODY", <<>>, "", <<"G", "o">>, EmptyMap)
      [] e = "testForm" ->
           El("FORM", <<>>, "f", <<>>, "action" :> "/submit")
      [] e = "nameInput" ->
           El("INPUT", <<>>, "user", <<>>, ("type" :> "text") @@ ("name" :> "username"))
      [] e = "pwdInput" ->
           El("INPUT", cls_no_audit, "pwd", <<>>,
              ("type" :> "password") @@ ("name" :> "pwd") @@ ("data-no-audit" :> ""))
      [] e = "skipForm" ->
           El("FORM", cls_no_audit, "", <<>>,
              ("action" :> "/token") @@ ("data-no-audit" :> ""))
      [] e = "tokenInput" ->
           El("INPUT", <<>>, "", <<>>, ("type" :> "hidden") @@ ("name" :> "token"))
      [] e = "svgIcon" ->
           El("svg", <<"i", "c", "o", "n">>, "", <<>>, "role" :> "button")

Document == [e \in AllElements \cup SvgElements |-> Describe(e)]
Dom(e) == Document[e]

\* Element.classList of each element
DocumentClassLists == [e \in AllElements \cup SvgElements |-> ClassList(Describe(e).className)]
classList(e) == DocumentClassLists[e]

hasAttribute(e, a) == a \in DOMAIN Dom(e).attrs
\* Element.getAttribute, with "" standing for the null of a missing attribute
\* where the caller only tests truthiness
getAttribute(e, a) == IF hasAttribute(e, a) THEN Dom(e).attrs[a] ELSE ""

\* Node.parentElement: the icon sits inside the button of class btn, the
\* controls inside their forms, everything else directly in the body
parentElement(e) ==
    CASE e = "icon" -> "goBtn"
      [] e \in {"nameInput", "goBtn", "pwdInput"} -> "testForm"
      [] e = "tokenInput" -> "skipForm"
      [] e = "body" -> "none"
      [] OTHER -> "body"

\* the ancestors of an element, the nearest first
RECURSIVE Ancestors(_)
Ancestors(e) ==
    IF parentElement(e) = "none" THEN <<>>
    ELSE <<parentElement(e)>> \o Ancestors(parentElement(e))

\* the listed controls of a form, in tree order
FormControls(f) ==
    CASE f = "testForm" -> <<"nameInput", "goBtn", "pwdInput">>
      [] f = "skipForm" -> <<"tokenInput">>
      [] OTHER -> <<>>
Forms == {"testForm", "skipForm"}

\* the input elements the user edits, and the values the user gives them (the
\* hidden input keeps its empty value)
Inputs == {"nameInput", "pwdInput"}
Values(e) == IF e = "nameInput" THEN {<<>>, <<"a", "b">>} ELSE {<<"p", "w">>}

\* HTMLInputElement.type / .name (the reflected properties)
TypeProp(e) ==
    LET tag == ToLowerCase(Dom(e).tagName)
    IN IF tag = "input"
       THEN (IF hasAttribute(e, "type") THEN getAttribute(e, "type") ELSE "text")
       ELSE IF tag = "textarea" THEN "textarea" ELSE "undefined"
NameProp(e) == getAttribute(e, "name")

\* document.querySelector for the id selectors the application uses
Selectors == {"#go", "#missing"}
QuerySelector(sel) ==
    IF sel = "#go" THEN {"goBtn"} ELSE {}

\* strings that are no selectors: document.querySelector throws a SyntaxError
InvalidSelectors == {"div["}
QuerySelectorThrows(sel) == sel \in InvalidSelectors

\* ---------------------------------------------------------------- configuration
\* string[] | null: null means no restriction
NullList == [isNull |-> TRUE]
List(S) == [isNull |-> FALSE, items |-> S]

defaultAuditConfig ==
    [enableRouteTracking |-> TRUE,
     enableClickTracking |-> TRUE,
     enableFormTracking |-> TRUE,
     enableInputTracking |-> TRUE,
     debounceTime |-> 2,
     trackingFilters |->
        [skipTags |-> {"html", "body", "script", "style", "meta", "head"},
         skipClasses |-> {cls_no_audit, cls_audit_skip},
         skipIds |-> {},
         trackOnlyTags |-> NullList,
         trackOnlyClasses |-> NullList],
     privacy |->
        [logFormValues |-> FALSE, logInputValues |-> FALSE, maxTextLength |-> 100]]

\* allow-lists, a skipped id, values logged, a short text bound
StrictConfig ==
    [debounceTime |-> 1,
     trackingFilters |->
        [skipTags |-> {"body"},
         skipClasses |-> {cls_no_audit},
         skipIds |-> {"go"},
         trackOnlyTags |-> List({"button", "div"}),
         trackOnlyClasses |-> List({cls_btn, cls_clickable})],
     privacy |->
        [logFormValues |-> TRUE, logInputValues |-> TRUE, maxTextLength |-> 2]]

\* every category switched off
OffConfig ==
    [enableRouteTracking |-> FALSE,
     enableClickTracking |-> FALSE,
     enableFormTracking |-> FALSE,
     enableInputTracking |-> FALSE]

\* only one field of the privacy group supplied
PartialConfig ==
    [enableRouteTracking |-> FALSE,
     privacy |-> [maxTextLength |-> 3]]

\* the values of the `config' prop (EmptyMap: the prop is not passed)
UserConfigs == {EmptyMap, StrictConfig, OffConfig, PartialConfig}

\* route tracking alone
RouteOnlyConfig ==
    [enableClickTracking |-> FALSE,
     enableFormTracking |-> FALSE,
     enableInputTracking |-> FALSE]

\* skip rules that match the forms of the document by tag, class and id
FormSkipConfig ==
    [trackingFilters |->
        [skipTags |-> {"form"},
         skipClasses |-> {cls_no_audit},
         skipIds |-> {"f"},
         trackOnlyTags |-> List({"button"}),
         trackOnlyClasses |-> NullList]]

\* the values of the `config' prop in the application
AppUserConfigs == UserConfigs \cup {RouteOnlyConfig, FormSkipConfig}

\* skip rules that match the inputs of the document by tag, class and id, and
\* allow-lists that admit none of them
InputSkipConfig ==
    [debounceTime |-> 1,
     trackingFilters |->
        [skipTags |-> {"input", "select", "textarea"},
         skipClasses |-> {cls_no_audit},
         skipIds |-> {"user", "pwd"},
         trackOnlyTags |-> List({"button"}),
         trackOnlyClasses |-> List({cls_btn})]]

\* { ...defaultAuditConfig, ...userConfig }
MergeConfig(userConfig) ==
    [k \in DOMAIN defaultAuditConfig |->
        IF k \in DOMAIN userConfig THEN userConfig[k] ELSE defaultAuditConfig[k]]

\* The config objects the renders build.  The state holds a config object by
\* reference: the name of the `config' prop it was merged from.
ConfigTable ==
    [r \in {"defaults", "strict", "off", "partial", "routeOnly", "formSkip",
            "inputSkip"} |->
        MergeConfig(CASE r = "defaults" -> EmptyMap
                      [] r = "strict" -> StrictConfig
                      [] r = "off" -> OffConfig
                      [] r = "partial" -> PartialConfig
                      [] r = "routeOnly" -> RouteOnlyConfig
                      [] r = "formSkip" -> FormSkipConfig
                      [] r = "inputSkip" -> InputSkipConfig)]
Config(ref) == ConfigTable[ref]
Ref(userConfig) ==
    CHOOSE r \in DOMAIN ConfigTable : ConfigTable[r] = MergeConfig(userConfig)

\* a boolean field of a group that may be missing: undefined is falsy
Truthy(group, field) == field \in DOMAIN group /\ group[field]

\* ---------------------------------------------------------------- filter policy
\* config.trackingFilters.skipClasses.some(cls => className.includes(cls))
SomeClassIncluded(classes, className) ==
    \E c \in classes : Includes(className, c)

\* a variant in which a class on the allow-list admits the element at once
shouldTrackElement_AllowFirst(element, config) ==
    LET tagName == ToLowerCase(Dom(element).tagName)
        className == Dom(element).className
        f == config.trackingFilters
    IN IF ~f.trackOnlyClasses.isNull
          /\ SomeClassIncluded(f.trackOnlyClasses.items, className) THEN TRUE
       ELSE IF tagName \in f.skipTags THEN FALSE
       ELSE IF SomeClassIncluded(f.skipClasses, className) THEN FALSE
       ELSE IF Dom(element).id \in f.skipIds THEN FALSE
       ELSE IF hasAttribute(element, "data-no-audit") THEN FALSE
       ELSE IF ~f.trackOnlyTags.isNull /\ tagName \notin f.trackOnlyTags.items THEN FALSE
       ELSE IF ~f.trackOnlyClasses.isNull THEN FALSE
       ELSE tagName \in {"button", "a", "input", "select", "textarea", "form"}

shouldTrackElement(element, config) ==
    LET tagName == ToLowerCase(Dom(element).tagName)
        className == Dom(element).className
        id == Dom(element).id
        f == config.trackingFilters
        interactiveTags == {"button", "a", "input", "select", "textarea", "form"}
        hasClickHandler ==
            \/ hasAttribute(element, "onclick")
            \/ (hasAttribute(element, "role") /\ getAttribute(element, "role") = "button")
            \/ cls_clickable \in classList(element)
            \/ cls_btn \in classList(element)
            \/ cls_button \in classList(element)
    IN IF tagName \in f.skipTags THEN FALSE
       ELSE IF SomeClassIncluded(f.skipClasses, className) THEN FALSE
       ELSE IF id \in f.skipIds THEN FALSE
       ELSE IF hasAttribute(element, "data-no-audit") THEN FALSE
       ELSE IF ~f.trackOnlyTags.isNull /\ tagName \notin f.trackOnlyTags.items THEN FALSE
       ELSE IF ~f.trackOnlyClasses.isNull
               /\ ~SomeClassIncluded(f.trackOnlyClasses.items, className) THEN FALSE
       ELSE tagName \in interactiveTags \/ hasClickHandler

\* shouldTrackElement throws a TypeError (className.includes is not a function)
\* when it reaches one of its two class tests, on a list that is not empty, with
\* an element whose className is not a string; its result stands otherwise
shouldTrackElementThrows(element, config) ==
    LET tagName == ToLowerCase(Dom(element).tagName)
        f == config.trackingFilters
    IN /\ ~classNameIsString(element)
       /\ tagName \notin f.skipTags
       /\ \/ f.skipClasses # {}
          \/ /\ Dom(element).id \notin f.skipIds
             /\ ~hasAttribute(element, "data-no-audit")
             /\ (f.trackOnlyTags.isNull \/ tagName \in f.trackOnlyTags.items)
             /\ ~f.trackOnlyClasses.isNull
             /\ f.trackOnlyClasses.items # {}

\* ---------------------------------------------------------------- snapshot
\* one optional field: omitted when the value is falsy ('' || undefined)
Opt(k, v, empty) == IF v = empty THEN EmptyMap ELSE k :> v

\* a variant that trims the text and forgets the bound
SnapshotText_NoBound(text, config) == Trim(text)

\* textContent?.trim().substring(0, config.privacy.maxTextLength)
\* (substring with an undefined end returns the whole string)
SnapshotText(text, config) ==
    IF "maxTextLength" \in DOMAIN config.privacy
    THEN Substring0(Trim(text), config.privacy.maxTextLength)
    ELSE Trim(text)

getElementInfo(element, config) ==
    ("tagName" :> ToLowerCase(Dom(element).tagName))
    @@ (IF classNameIsString(element) THEN Opt("className", Dom(element).className, <<>>)
        ELSE "className" :> [baseVal |-> Dom(element).className,
                             animVal |-> Dom(element).className])
    @@ Opt("id", Dom(element).id, "")
    @@ Opt("text", SnapshotText(Dom(element).textContent, config), <<>>)
    @@ Opt("href", getAttribute(element, "href"), "")
    @@ Opt("type", getAttribute(element, "type"), "")

\* ---------------------------------------------------------------- state
VARIABLES
    mounted,        \* the RouteAuditTracker component is mounted
    config,         \* the merged config of the latest render, by reference (the
                    \* defaults while the component is not mounted)
    location,       \* window.location: [pathname, search, hash]
    storedUserId,   \* localStorage.getItem('userId'), "null" when the key is unset
    listeners,      \* listeners registered on document/window, in registration order
    effectId,       \* the current run of the listener effect (0: none); it names
                    \* the closures of the run while one of them is registered
    timers,         \* pending setTimeout callbacks
    nextTimerId,    \* the handle the next setTimeout returns
    auditTimeout,   \* element.__auditTimeout (0: never set)
    value,          \* element.value of the inputs
    lastEntry,      \* the entry the latest step handed to sendAuditLog (NoEntry: none)
    nSentInStep,    \* the number of entries the latest step handed to sendAuditLog
    lastChange,     \* per input: the latest change event its handler processed:
                    \* the ticks left of its debounce period, the value at the
                    \* event, and whether it is the first of its burst (n = 1) or
                    \* a later one (n = 2)
    owed,           \* per input: bursts of change events begun minus entries sent
    lastEvent,      \* the DOM event the latest step dispatched (NoEvent: none), with
                    \* the number of handlers it invoked, the number of timers they
                    \* started, the configs of the timers they cancelled and the
                    \* number of exceptions that left them
    lastFetch,      \* how the POST of lastEntry settled, once it has (NoFetch: not yet)
    probe,          \* a call of the snapshot extractor on a text of its own: the
                    \* text, the bound and the result (NoProbe: none)
    server          \* the collection endpoint: the latest request it received, its
                    \* receipt time, what it wrote to the sink, and its response
                    \* (NoRequest: none yet)

vars ==
    <<mounted, config, location, storedUserId, listeners, effectId, timers,
      nextTimerId, auditTimeout, value, lastEntry, nSentInStep, lastChange, owed,
      lastEvent, lastFetch, probe, server>>

EventTypes == {"route_change", "click", "form_submit", "input_change", "custom"}
Pathnames == {"/page1", "/page2"}
\* window.location values the router navigates to: another page, a query string
\* alone, a fragment alone
Locations ==
    {[pathname |-> "/page1", search |-> "", hash |-> ""],
     [pathname |-> "/page2", search |-> "", hash |-> ""],
     [pathname |-> "/page1", search |-> "?tab=2", hash |-> ""],
     [pathname |-> "/page1", search |-> "", hash |-> "#top"]}
NoChange == [wait |-> -1, value |-> <<>>, n |-> 0]
NoEntry == [entry |-> [eventType |-> "none"], target |-> "none"]
NoEvent == [type |-> "none"]
NoFetch == [outcome |-> "none"]
NoProbe == [fn |-> "none"]
NoRequest == [request |-> [kind |-> "none"]]

\* what a handler reads and writes, as one record, at the start of a step
\* (location is what it finds in window.location)
Cur ==
    [location |-> location,
     timers |-> timers, nextTimerId |-> nextTimerId, auditTimeout |-> auditTimeout,
     lastEntry |-> NoEntry, nSentInStep |-> 0, lastFetch |-> NoFetch,
     lastChange |-> lastChange, owed |-> owed, uncaught |-> 0]

Commit(s) ==
    /\ timers' = s.timers
    /\ nextTimerId' = s.nextTimerId
    /\ auditTimeout' = s.auditTimeout
    /\ lastEntry' = s.lastEntry
    /\ nSentInStep' = s.nSentInStep
    /\ lastFetch' = s.lastFetch
    /\ lastChange' = s.lastChange
    /\ owed' = s.owed

\* a step that hands out no entry and dispatches no event
Quiet ==
    lastEntry' = NoEntry /\ nSentInStep' = 0 /\ lastEvent' = NoEvent /\ lastFetch' = NoFetch

\* a listener throws: it has no try block, so the exception leaves it and the
\* browser reports it as an uncaught error (the dispatch goes on)
Throw(s) == [s EXCEPT !.uncaught = @ + 1]

\* the bound of the model: timer handles still available
WithinBounds(s) == s.nextTimerId <= MaxTimers + 1

\* ---------------------------------------------------------------- record builder
\* a variant without the sentinel
getCurrentUserId_Raw == storedUserId

getCurrentUserId ==
    IF storedUserId = "null" \/ storedUserId = "" THEN "anonymous" ELSE storedUserId

\* a variant that leaves out the query string and the fragment
currentPath_PathnameOnly(loc) == <<loc.pathname, "", "">>

\* pathname + search + hash, kept as the three parts in order
currentPath(loc) == <<loc.pathname, loc.search, loc.hash>>

\* the value of an argument that was not passed
Undefined == [undefined |-> TRUE]

createAuditEntry(s, eventType, elementInfo, additionalData) ==
    [userId |-> getCurrentUserId,
     path |-> currentPath(s.location),
     timestamp |-> 0,
     eventType |-> eventType,
     elementInfo |-> elementInfo,
     additionalData |-> additionalData]

\* sendAuditLog: the entry leaves for the endpoint (fire and forget).  Beside the
\* entry the model keeps the element it is about and the config its handler held.
sendAuditLog(s, entry, target, c) ==
    [s EXCEPT
        !.lastEntry = [entry |-> entry, target |-> target, cfg |-> c],
        !.nSentInStep = @ + 1,
        !.owed = IF entry.eventType = "input_change" /\ target \in Inputs
                 THEN [@ EXCEPT ![target] = @ - 1] ELSE @]

\* how the fetch of a POST settles: the promise resolves with a 2xx response,
\* resolves with a non-2xx response, or rejects (network error)
FetchOutcomes == {"ok", "http_error", "network_error"}

\* sendAuditLog after its await: the try block is left normally when the promise
\* resolves (whatever the status of the response, which is not read), the catch
\* block logs when it rejects; the promise sendAuditLog returned resolves
AwaitFetch(outcome) ==
    [outcome |-> outcome,
     posts |-> 1,
     consoleErrors |-> IF outcome = "network_error" THEN 1 ELSE 0,
     delivered |-> (outcome = "ok"),
     rejected |-> FALSE]

\* ---------------------------------------------------------------- handlers
\* Each handler maps the record of what it may touch (see Cur) to the record after
\* it returned; c refers to the config its closure holds, cfg.
\* a variant that tracks every click, whatever the filter says
handleClick_NoFilter(s, c, ev) ==
    LET cfg == Config(c) IN
    IF ~cfg.enableClickTracking THEN s
    ELSE sendAuditLog(s,
            createAuditEntry(s, "click", getElementInfo(ev.target, cfg),
                [clientX |-> ev.clientX, clientY |-> ev.clientY, button |-> ev.button]),
            ev.target, c)

\* a variant that looks for a trackable element from the target upwards and
\* reports the nearest one
handleClick_NearestTracked(s, c, ev) ==
    LET cfg == Config(c)
        chain == <<ev.target>> \o Ancestors(ev.target)
        hits == {i \in 1..Len(chain) : shouldTrackElement(chain[i], cfg)}
        hit == chain[CHOOSE i \in hits : \A j \in hits : i <= j]
    IN IF ~cfg.enableClickTracking \/ hits = {} THEN s
       ELSE sendAuditLog(s,
               createAuditEntry(s, "click", getElementInfo(hit, cfg),
                   [clientX |-> ev.clientX, clientY |-> ev.clientY, button |-> ev.button]),
               hit, c)

handleClick(s, c, ev) ==
    LET cfg == Config(c) IN
    IF ~cfg.enableClickTracking THEN s
    ELSE IF shouldTrackElementThrows(ev.target, cfg) THEN Throw(s)
    ELSE IF shouldTrackElement(ev.target, cfg)
    THEN sendAuditLog(s,
            createAuditEntry(s, "click", getElementInfo(ev.target, cfg),
                [clientX |-> ev.clientX, clientY |-> ev.clientY, button |-> ev.button]),
            ev.target, c)
    ELSE s

\* a variant that leaves the password fields out of the form data
FormData_NoPasswords(form) ==
    LET cs == FormControls(form)
        ok(c) == /\ ToLowerCase(Dom(c).tagName) \in {"input", "select", "textarea"}
                 /\ NameProp(c) # ""
                 /\ TypeProp(c) # "password"
        val(c) == IF c \in Inputs THEN value[c] ELSE <<>>
    IN [i \in 1..Len(SelectSeq(cs, ok)) |->
            <<NameProp(SelectSeq(cs, ok)[i]), val(SelectSeq(cs, ok)[i])>>]

\* new FormData(form): the <<name, value>> pairs of the named input controls
FormData(form) ==
    LET cs == FormControls(form)
        ok(c) == /\ ToLowerCase(Dom(c).tagName) \in {"input", "select", "textarea"}
                 /\ NameProp(c) # ""
        val(c) == IF c \in Inputs THEN value[c] ELSE <<>>
    IN [i \in 1..Len(SelectSeq(cs, ok)) |->
            <<NameProp(SelectSeq(cs, ok)[i]), val(SelectSeq(cs, ok)[i])>>]

\* Object.fromEntries(formData)
FromEntries(fd) ==
    [k \in {fd[i][1] : i \in 1..Len(fd)} |->
        fd[CHOOSE i \in 1..Len(fd) :
              fd[i][1] = k /\ \A j \in 1..Len(fd) : fd[j][1] = k => j <= i][2]]

\* a variant that logs the form values whatever the privacy flag
handleSubmit_AlwaysValues(s, c, ev) ==
    LET cfg == Config(c) IN
    IF ~cfg.enableFormTracking THEN s
    ELSE LET formData == FormData(ev.target)
             additionalData ==
                 ("formFields" :> [i \in 1..Len(formData) |-> formData[i][1]])
                 @@ ("action" :> getAttribute(ev.target, "action"))
                 @@ ("method" :> "get")
                 @@ ("formValues" :> FromEntries(formData))
         IN sendAuditLog(s,
                createAuditEntry(s, "form_submit", getElementInfo(ev.target, cfg),
                                 additionalData),
                ev.target, c)

\* a variant that applies the filter policy to the form
handleSubmit_Filtered(s, c, ev) ==
    LET cfg == Config(c) IN
    IF ~cfg.enableFormTracking \/ ~shouldTrackElement(ev.target, cfg) THEN s
    ELSE LET formData == FormData(ev.target)
             additionalData ==
                 ("formFields" :> [i \in 1..Len(formData) |-> formData[i][1]])
                 @@ ("action" :> getAttribute(ev.target, "action"))
                 @@ ("method" :> "get")
                 @@ (IF Truthy(cfg.privacy, "logFormValues")
                     THEN "formValues" :> FromEntries(formData) ELSE EmptyMap)
         IN sendAuditLog(s,
                createAuditEntry(s, "form_submit", getElementInfo(ev.target, cfg),
                                 additionalData),
                ev.target, c)

handleSubmit(s, c, ev) ==
    LET cfg == Config(c) IN
    IF ~cfg.enableFormTracking THEN s
    ELSE LET formData == FormData(ev.target)
             formFields == [i \in 1..Len(formData) |-> formData[i][1]]
             additionalData ==
                 ("formFields" :> formFields)
                 @@ ("action" :> getAttribute(ev.target, "action"))
                 @@ ("method" :> "get")
                 @@ (IF Truthy(cfg.privacy, "logFormValues")
                     THEN "formValues" :> FromEntries(formData) ELSE EmptyMap)
         IN sendAuditLog(s,
                createAuditEntry(s, "form_submit", getElementInfo(ev.target, cfg),
                                 additionalData),
                ev.target, c)

\* variants: the pending timer is not cancelled; every pending timer is cancelled
clearTimeout_Noop(ts, handle) == ts
clearTimeout_All(ts, handle) == {}

\* clearTimeout(handle): a handle that is not pending is ignored
clearTimeout(ts, handle) == {t \in ts : t.id # handle}

\* a variant in which each handler keeps the handles of its own timers: it
\* cancels the pending timer only if a handler of the same config scheduled it
ScheduleInputChange_OwnTimersOnly(s, c, target) ==
    LET cfg == Config(c)
        prev == s.lastChange[target]
        newBurst == prev.wait <= 0
        timer == [id |-> s.nextTimerId, target |-> target, cfg |-> c,
                  left |-> cfg.debounceTime]
    IN [s EXCEPT
          !.timers = {t \in s.timers : ~(t.id = s.auditTimeout[target] /\ t.cfg = c)}
                     \cup {timer},
          !.auditTimeout[target] = s.nextTimerId,
          !.nextTimerId = @ + 1,
          !.lastChange[target] =
              [wait |-> cfg.debounceTime, value |-> value[target],
               n |-> IF newBurst THEN 1 ELSE 2],
          !.owed[target] = IF newBurst THEN @ + 1 ELSE @]

\* the body of handleInputChange once the target is an input, select or textarea
ScheduleInputChange(s, c, target) ==
    LET cfg == Config(c)
        prev == s.lastChange[target]
        newBurst == prev.wait <= 0
        timer == [id |-> s.nextTimerId, target |-> target, cfg |-> c,
                  left |-> cfg.debounceTime]
    IN [s EXCEPT
          !.timers = clearTimeout(s.timers, s.auditTimeout[target]) \cup {timer},
          !.auditTimeout[target] = s.nextTimerId,
          !.nextTimerId = @ + 1,
          !.lastChange[target] =
              [wait |-> cfg.debounceTime, value |-> value[target],
               n |-> IF newBurst THEN 1 ELSE 2],
          !.owed[target] = IF newBurst THEN @ + 1 ELSE @]

\* a variant that applies the filter policy to the input
handleInputChange_Filtered(s, c, ev) ==
    IF ~Config(c).enableInputTracking \/ ~shouldTrackElement(ev.target, Config(c)) THEN s
    ELSE IF ToLowerCase(Dom(ev.target).tagName) \in {"input", "select", "textarea"}
    THEN ScheduleInputChange(s, c, ev.target)
    ELSE s

handleInputChange(s, c, ev) ==
    IF ~Config(c).enableInputTracking THEN s
    ELSE IF ToLowerCase(Dom(ev.target).tagName) \in {"input", "select", "textarea"}
    THEN ScheduleInputChange(s, c, ev.target)
    ELSE s

\* a variant that reports the value the element had at the change event
InputChangeCallback_ValueAtEvent(s, c, target) ==
    LET cfg == Config(c)
        v == s.lastChange[target].value
        additionalData ==
            ("inputType" :> TypeProp(target))
            @@ ("name" :> NameProp(target))
            @@ ("hasValue" :> (v # <<>>))
            @@ ("valueLength" :> Len(v))
            @@ (IF Truthy(cfg.privacy, "logInputValues") /\ TypeProp(target) # "password"
                THEN "value" :> v ELSE EmptyMap)
    IN sendAuditLog(s,
           createAuditEntry(s, "input_change", getElementInfo(target, cfg), additionalData),
           target, c)

\* a variant without the password exemption
InputChangeCallback_NoPasswordCheck(s, c, target) ==
    LET cfg == Config(c)
        additionalData ==
            ("inputType" :> TypeProp(target))
            @@ ("name" :> NameProp(target))
            @@ ("hasValue" :> (value[target] # <<>>))
            @@ ("valueLength" :> Len(value[target]))
            @@ (IF Truthy(cfg.privacy, "logInputValues")
                THEN "value" :> value[target] ELSE EmptyMap)
    IN sendAuditLog(s,
           createAuditEntry(s, "input_change", getElementInfo(target, cfg), additionalData),
           target, c)

\* the callback handleInputChange hands to setTimeout
InputChangeCallback(s, c, target) ==
    LET cfg == Config(c)
        additionalData ==
            ("inputType" :> TypeProp(target))
            @@ ("name" :> NameProp(target))
            @@ ("hasValue" :> (value[target] # <<>>))
            @@ ("valueLength" :> Len(value[target]))
            @@ (IF Truthy(cfg.privacy, "logInputValues") /\ TypeProp(target) # "password"
                THEN "value" :> value[target] ELSE EmptyMap)
    IN sendAuditLog(s,
           createAuditEntry(s, "input_change", getElementInfo(target, cfg), additionalData),
           target, c)

\* the payloads the application dispatches on the audit-custom-event channel
CustomEvents ==
    {[eventType |-> "business_event_checkout", customData |-> [orderId |-> "123"]],
     [eventType |-> "user_action", elementSelector |-> "#go"],
     [eventType |-> "feature_usage", elementSelector |-> "#missing",
      customData |-> [featureName |-> "export"]]}

\* the payloads of the application, and one whose customData has a key named
\* customEventType
AppCustomEvents ==
    CustomEvents
    \cup {[eventType |-> "user_action",
           customData |-> [customEventType |-> "spoofed", action |-> "open"]]}

\* a payload whose elementSelector is no selector
FaultyCustomEvents == {[eventType |-> "user_action", elementSelector |-> "div["]}

\* (an event without detail has detail null: reading a property of it throws a
\* TypeError; a string that is no selector makes querySelector throw)
handleCustomEvent(s, c, ev) ==
    LET cfg == Config(c)
        customEvent == ev.detail
        found == IF "elementSelector" \in DOMAIN customEvent
                 THEN QuerySelector(customEvent.elementSelector) ELSE {}
        elementInfo == IF found = {} THEN Undefined
                       ELSE getElementInfo(CHOOSE e \in found : TRUE, cfg)
        additionalData ==
            (IF "customData" \in DOMAIN customEvent THEN customEvent.customData
             ELSE EmptyMap)
            @@ ("customEventType" :> customEvent.eventType)
    IN IF "detail" \notin DOMAIN ev THEN Throw(s)
       ELSE IF "elementSelector" \in DOMAIN customEvent
               /\ QuerySelectorThrows(customEvent.elementSelector) THEN Throw(s)
       ELSE sendAuditLog(s, createAuditEntry(s, "custom", elementInfo, additionalData),
                         IF found = {} THEN "none" ELSE CHOOSE e \in found : TRUE, c)

\* ---------------------------------------------------------------- dispatch
Handle(l, ev, s) ==
    CASE l.type = "click" -> handleClick(s, l.cfg, ev)
      [] l.type = "submit" -> handleSubmit(s, l.cfg, ev)
      [] l.type = "change" -> handleInputChange(s, l.cfg, ev)
      [] l.type = "audit-custom-event" -> handleCustomEvent(s, l.cfg, ev)

\* the listeners registered for the event's type run in registration order
RECURSIVE RunListeners(_, _, _)
RunListeners(ls, ev, s) ==
    IF ls = <<>> THEN s
    ELSE RunListeners(Tail(ls), ev,
            IF Head(ls).type = ev.type THEN Handle(Head(ls), ev, s) ELSE s)

Invoked(ls, ev) == Len(SelectSeq(ls, LAMBDA l : l.type = ev.type))

\* ---------------------------------------------------------------- effects
\* the route effect: deps [pathname, search, hash, config.enableRouteTracking]
RouteEffect(s, c) ==
    IF Config(c).enableRouteTracking
    THEN sendAuditLog(s, createAuditEntry(s, "route_change", Undefined, Undefined),
                      "none", c)
    ELSE s

Listener(type, c, k) == [type |-> type, cfg |-> c, effect |-> k]

\* the listener effect, run k: addEventListener for the enabled categories
AddListeners(ls, c, k) ==
    ls
    \o (IF Config(c).enableClickTracking THEN <<Listener("click", c, k)>> ELSE <<>>)
    \o (IF Config(c).enableFormTracking THEN <<Listener("submit", c, k)>> ELSE <<>>)
    \o (IF Config(c).enableInputTracking THEN <<Listener("change", c, k)>> ELSE <<>>)
    \o <<Listener("audit-custom-event", c, k)>>

\* a variant that leaves the custom-event listener registered
Cleanup_KeepCustomEvent(ls, k) ==
    SelectSeq(ls, LAMBDA l : ~(l.effect = k /\ l.type \in {"click", "submit", "change"}))

\* a variant that leaves the change listener registered
Cleanup_KeepChange(ls, k) ==
    SelectSeq(ls, LAMBDA l :
        ~(l.effect = k /\ l.type \in {"click", "submit", "audit-custom-event"}))

\* the cleanup of run k: removeEventListener for the four handlers of that run
Cleanup(ls, k) ==
    SelectSeq(ls, LAMBDA l :
        ~(l.effect = k /\ l.type \in {"click", "submit", "change", "audit-custom-event"}))

\* the name of a new run of the listener effect: the least one no registered
\* listener bears
NewEffect(ls) ==
    CHOOSE k \in 1..(Len(ls) + 1) :
        /\ \A i \in 1..Len(ls) : ls[i].effect # k
        /\ \A j \in 1..(k - 1) : \E i \in 1..Len(ls) : ls[i].effect = j

\* a variant in which the effect returns no cleanup
Rerun_NoCleanup(ls, k, c) == AddListeners(ls, c, NewEffect(ls))

\* the listener effect runs again: the cleanup of the current run, then the
\* registration under a new name
Rerun(ls, k, c) == AddListeners(Cleanup(ls, k), c, NewEffect(Cleanup(ls, k)))

NoDueTimer == \A t \in timers : t.left > 0

\* ---------------------------------------------------------------- actions
InitTracker ==
    /\ mounted = FALSE
    /\ config = Ref(EmptyMap)
    /\ location = [pathname |-> "/page1", search |-> "", hash |-> ""]
    /\ storedUserId = "null"
    /\ listeners = <<>>
    /\ effectId = 0
    /\ timers = {}
    /\ nextTimerId = 1
    /\ auditTimeout = [e \in Inputs |-> 0]
    /\ value = [e \in Inputs |-> IF e = "pwdInput" THEN <<"p", "w">> ELSE <<>>]
    /\ lastEntry = NoEntry
    /\ nSentInStep = 0
    /\ lastChange = [e \in Inputs |-> NoChange]
    /\ owed = [e \in Inputs |-> 0]
    /\ lastEvent = NoEvent
    /\ lastFetch = NoFetch

Init == InitTracker /\ probe = NoProbe /\ server = NoRequest

\* first render with the given `config' prop: both effects run
Mount(userConfig) ==
    /\ ~mounted
    /\ NoDueTimer
    /\ \E c \in {Ref(userConfig)} :
          /\ \E s \in {RouteEffect(Cur, c)} : Commit(s)
          /\ config' = c
          /\ listeners' = AddListeners(listeners, c, NewEffect(listeners))
    /\ mounted' = TRUE
    /\ effectId' = NewEffect(listeners)
    /\ lastEvent' = NoEvent
    /\ UNCHANGED <<location, storedUserId, probe, server, value>>

\* a re-render (the parent rendered again, possibly with another `config' prop):
\* the route effect runs when one of its deps changed, the listener effect always
\* (its dep is the config object, which every render builds anew)
Render(userConfig) ==
    /\ mounted
    /\ NoDueTimer
    /\ \E c \in {Ref(userConfig)} :
          /\ \E s \in {IF Config(c).enableRouteTracking
                             # Config(config).enableRouteTracking
                        THEN RouteEffect(Cur, c) ELSE Cur} : Commit(s)
          /\ config' = c
          /\ listeners' = Rerun(listeners, effectId, c)
    /\ effectId' = NewEffect(Cleanup(listeners, effectId))
    /\ lastEvent' = NoEvent
    /\ UNCHANGED <<mounted, location, storedUserId, probe, server, value>>

\* the location changes; a mounted tracker re-renders (useLocation) with the
\* config it was given and both effects run
NavigateTo(loc) ==
    /\ loc # location
    /\ NoDueTimer
    /\ location' = loc
    /\ IF mounted
       THEN /\ \E s \in {RouteEffect([Cur EXCEPT !.location = location'], config)} :
                  Commit(s)
            /\ listeners' = Rerun(listeners, effectId, config)
            /\ effectId' = NewEffect(Cleanup(listeners, effectId))
       ELSE /\ lastEntry' = NoEntry
            /\ nSentInStep' = 0
            /\ lastFetch' = NoFetch
            /\ UNCHANGED <<listeners, effectId, timers, nextTimerId, auditTimeout,
                           lastChange, owed>>
    /\ lastEvent' = NoEvent
    /\ UNCHANGED <<mounted, config, storedUserId, probe, server, value>>

\* a navigation to another page
Navigate(pathname) == NavigateTo([location EXCEPT !.pathname = pathname])

\* the component unmounts: the cleanup of the listener effect runs
Unmount ==
    /\ mounted
    /\ NoDueTimer
    /\ mounted' = FALSE
    /\ listeners' = Cleanup(listeners, effectId)
    /\ config' = Ref(EmptyMap)
    /\ effectId' = 0
    /\ Quiet
    /\ UNCHANGED <<location, storedUserId, probe, server, timers, nextTimerId,
                   auditTimeout, value, lastChange, owed>>

\* a DOM event reaches the listeners registered for its type
Dispatch(ev) ==
    /\ NoDueTimer
    /\ \E s \in {RunListeners(listeners, ev, Cur)} :
          WithinBounds(s) /\ Commit(s)
    /\ lastEvent' = [type |-> ev.type, target |-> ev.target,
                     invoked |-> Invoked(listeners, ev),
                     started |-> nextTimerId' - nextTimerId,
                     cancelled |-> {t.cfg : t \in timers \ timers'},
                     uncaught |-> RunListeners(listeners, ev, Cur).uncaught]
                    @@ (IF "detail" \in DOMAIN ev THEN "detail" :> ev.detail
                        ELSE EmptyMap)
    /\ UNCHANGED <<mounted, config, location, storedUserId, probe, server, listeners, effectId,
                   value>>

Click(target) ==
    Dispatch([type |-> "click", target |-> target,
              clientX |-> 10, clientY |-> 20, button |-> 0])

Submit(form) == Dispatch([type |-> "submit", target |-> form])

Change(target) == Dispatch([type |-> "change", target |-> target])

\* trackCustomEvent: window.dispatchEvent(new CustomEvent('audit-custom-event', ...))
trackCustomEvent(event) ==
    Dispatch([type |-> "audit-custom-event", target |-> "window", detail |-> event])

\* window.dispatchEvent(new CustomEvent('audit-custom-event')): an event on the
\* channel that carries no payload
DispatchWithoutDetail == Dispatch([type |-> "audit-custom-event", target |-> "window"])

\* the user types into an input (no change event yet)
EditValue(e, v) ==
    /\ v # value[e]
    /\ NoDueTimer
    /\ value' = [value EXCEPT ![e] = v]
    /\ Quiet
    /\ UNCHANGED <<mounted, config, location, storedUserId, probe, server, listeners, effectId,
                   timers, nextTimerId, auditTimeout, lastChange, owed>>

\* a variant in which the callback reads the config of the latest render
TimerFire_ActiveConfig(t) ==
    /\ t \in timers
    /\ t.left = 0
    /\ \E s \in {InputChangeCallback([Cur EXCEPT !.timers = timers \ {t}],
                                       config, t.target)} : Commit(s)
    /\ lastEvent' = NoEvent
    /\ UNCHANGED <<mounted, config, location, storedUserId, probe, server, listeners,
                   effectId, value>>

\* a pending timer reaches its deadline and its callback runs
TimerFire(t) ==
    /\ t \in timers
    /\ t.left = 0
    /\ \E s \in {InputChangeCallback([Cur EXCEPT !.timers = timers \ {t}],
                                       t.cfg, t.target)} : Commit(s)
    /\ lastEvent' = NoEvent
    /\ UNCHANGED <<mounted, config, location, storedUserId, probe, server, listeners, effectId,
                   value>>

\* a tick passes; a due timer runs before anything else does
Tick ==
    /\ NoDueTimer
    /\ timers' = {[t EXCEPT !.left = @ - 1] : t \in timers}
    /\ lastChange' =
          [e \in Inputs |->
              IF lastChange[e].wait <= 0 THEN NoChange
              ELSE [lastChange[e] EXCEPT !.wait = @ - 1]]
    /\ Quiet
    /\ UNCHANGED <<mounted, config, location, storedUserId, probe, server, listeners, effectId,
                   nextTimerId, auditTimeout, value, owed>>

\* the values under the key 'userId' of localStorage ("null": the key is unset)
UserIds == {"null", "", "u1"}

\* the application signs a user in or out: localStorage.setItem('userId', ...) or
\* removeItem('userId')
SetUserId(u) ==
    /\ u # storedUserId
    /\ NoDueTimer
    /\ storedUserId' = u
    /\ Quiet
    /\ UNCHANGED <<mounted, config, location, probe, server, listeners, effectId, timers,
                   nextTimerId, auditTimeout, value, lastChange, owed>>

\* the POST of the latest entry settles
FetchSettles(outcome) ==
    /\ lastEntry # NoEntry
    /\ lastFetch = NoFetch
    /\ NoDueTimer
    /\ lastFetch' = AwaitFetch(outcome)
    /\ UNCHANGED <<mounted, config, location, storedUserId, probe, server, listeners,
                   effectId, timers, nextTimerId, auditTimeout, value, lastEntry,
                   nSentInStep, lastChange, owed, lastEvent>>

Next ==
    \/ \E uc \in UserConfigs : Mount(uc)
    \/ \E uc \in UserConfigs : Render(uc)
    \/ \E p \in Pathnames : Navigate(p)
    \/ Unmount
    \/ \E e \in Elements : Click(e)
    \/ Submit("testForm")
    \/ \E e \in Inputs \cup {"roleDiv"} : Change(e)
    \/ \E c \in CustomEvents : trackCustomEvent(c)
    \/ \E e \in Inputs : \E v \in Values(e) : EditValue(e, v)
    \/ \E t \in timers : TimerFire(t)
    \/ Tick

Spec == Init /\ [][Next]_vars

\* ---------------------------------------------------------------- the application
\* The tracker in its application: every location part changes, every kind of
\* element is clicked, every payload is dispatched and the POSTs settle; no
\* input changes.
NextApp ==
    \/ \E uc \in AppUserConfigs : Mount(uc)
    \/ \E uc \in AppUserConfigs : Render(uc)
    \/ \E loc \in Locations : NavigateTo(loc)
    \/ Unmount
    \/ \E e \in AllElements : Click(e)
    \/ \E f \in Forms : Submit(f)
    \/ \E c \in AppCustomEvents : trackCustomEvent(c)
    \/ \E o \in FetchOutcomes : FetchSettles(o)

AppSpec == Init /\ [][NextApp]_vars

\* ---------------------------------------------------------------- the session
\* The user signs in and out while the tracker, mounted with or without a config
\* prop, builds entries of every type.
NextSession ==
    \/ \E uc \in {EmptyMap, StrictConfig} : Mount(uc)
    \/ Unmount
    \/ \E u \in UserIds : SetUserId(u)
    \/ \E e \in Elements : Click(e)
    \/ \E f \in Forms : Submit(f)
    \/ \E c \in CustomEvents : trackCustomEvent(c)
    \/ Change("nameInput")
    \/ \E t \in timers : TimerFire(t)
    \/ Tick

SessionSpec == Init /\ [][NextSession]_vars

\* ---------------------------------------------------------------- faults
\* The tracker with the events its handlers do not expect: a click on an SVG
\* element, a payload whose selector is no selector, an event without payload.
NextFault ==
    \/ \E uc \in AppUserConfigs : Mount(uc)
    \/ \E uc \in AppUserConfigs : Render(uc)
    \/ \E p \in Pathnames : Navigate(p)
    \/ Unmount
    \/ \E e \in AllElements \cup SvgElements : Click(e)
    \/ \E c \in AppCustomEvents \cup FaultyCustomEvents : trackCustomEvent(c)
    \/ DispatchWithoutDetail

FaultSpec == Init /\ [][NextFault]_vars

\* ---------------------------------------------------------------- the pages
\* The two pages of the application: the form and its inputs are rendered by
\* /page1 alone, so the user edits and changes them there; the timers they leave
\* behind expire wherever the user is by then.
OnFormPage == location.pathname = "/page1"

PagesUserConfigs == {EmptyMap, StrictConfig, InputSkipConfig}

NextPages ==
    \/ \E uc \in PagesUserConfigs : Mount(uc)
    \/ \E uc \in PagesUserConfigs : Render(uc)
    \/ \E p \in Pathnames : Navigate(p)
    \/ Unmount
    \/ \E e \in Inputs : OnFormPage /\ Change(e)
    \/ \E e \in Inputs : \E v \in Values(e) : OnFormPage /\ EditValue(e, v)
    \/ \E t \in timers : TimerFire(t)
    \/ Tick

PagesSpec == Init /\ [][NextPages]_vars

\* ---------------------------------------------------------------- the snapshot extractor
\* getElementInfo's text field on the texts of at most MaxTextLen characters (a
\* blank among them) and the bounds up to one more than that
Chars == {" ", "a", "b"}
Texts == UNION {[1..n -> Chars] : n \in 0..MaxTextLen}

InitSnapshot ==
    /\ InitTracker
    /\ probe \in {[fn |-> "getElementInfo", textContent |-> t, maxTextLength |-> n,
                    returned |-> FALSE, result |-> EmptyMap] :
                      t \in Texts, n \in 0..(MaxTextLen + 1)}
    /\ server = NoRequest

\* the call returns: text: textContent?.trim().substring(0, maxTextLength) || undefined
ExtractSnapshot ==
    /\ probe.fn = "getElementInfo"
    /\ ~probe.returned
    /\ probe' = [probe EXCEPT
          !.returned = TRUE,
          !.result = Opt("text",
                        SnapshotText(probe.textContent,
                            [privacy |-> [maxTextLength |-> probe.maxTextLength]]),
                        <<>>)]
    /\ UNCHANGED <<mounted, config, location, storedUserId, listeners, effectId,
                   timers, nextTimerId, auditTimeout, value, lastEntry, nSentInStep,
                   lastChange, owed, lastEvent, lastFetch, server>>

NextSnapshot == ExtractSnapshot

SnapshotSpec == InitSnapshot /\ [][NextSnapshot]_vars

\* ---------------------------------------------------------------- the collection endpoint
\* obj?.k as a mapping of at most one key, stored under `name' (a property that
\* is undefined is a key that is absent)
Prop(name, obj, k) == IF k \in DOMAIN obj THEN name :> obj[k] ELSE EmptyMap

\* body.g?.k, likewise
Chain(name, body, g, k) ==
    IF g \in DOMAIN body THEN Prop(name, body[g], k) ELSE EmptyMap

\* the bodies of the records posted to the endpoint: every event type of the
\* client, one it does not know and none; fields present and missing
RequestEventTypes == EventTypes \cup {"page_view"}
RequestElementInfos == {[tagName |-> "button", className |-> "btn", text |-> "Go"]}
RequestAdditionalData ==
    {[clientX |-> 10, clientY |-> 20, button |-> 0],
     [clientX |-> 0, clientY |-> 20, button |-> 0],
     [action |-> "/submit", method |-> "get", formFields |-> <<"username", "pwd">>],
     [inputType |-> "text", name |-> "username", hasValue |-> TRUE, valueLength |-> 2],
     [customEventType |-> "feature_usage", featureName |-> "export"]}

\* one optional field of a body: absent, or one of the given values
Optional(k, S) == {EmptyMap} \cup {k :> v : v \in S}

RequestBodies ==
    {et @@ uid @@ ("path" :> "/page1") @@ ts @@ ei @@ ad :
        et \in Optional("eventType", RequestEventTypes),
        uid \in Optional("userId", {"u1"}),
        ts \in Optional("timestamp", {"09:59:59Z"}),
        ei \in Optional("elementInfo", RequestElementInfos),
        ad \in Optional("additionalData", RequestAdditionalData)}

\* the POST requests: a JSON object, a JSON array, a JSON text that is neither
\* (a number, a string, null), a text that is not JSON, a JSON object beyond
\* the size limit of the parser, and a body that is not announced as JSON
Requests ==
    {[kind |-> "json_object", body |-> b] : b \in RequestBodies}
    \cup {[kind |-> k] : k \in {"json_array", "json_primitive", "malformed",
                                "too_large", "not_json"}}

\* the values of new Date().toISOString() on the server
ServerClock == {"10:00:00Z", "10:00:01Z"}

\* what req.body is when the body was not announced as JSON, by the version of
\* express the build installs: an empty object, or undefined
UnparsedBodies == {"empty_object", "undefined"}

\* app.use(express.json()): the body parser hands a JSON object or array to the
\* route, answers 400 to a text it does not parse (strict mode: anything that
\* is not an object or an array) and 413 to a body beyond its limit, and leaves
\* a body that is not announced as JSON unparsed
JsonBodyParser(req, unparsed) ==
    CASE req.kind = "json_object" -> [next |-> TRUE, body |-> req.body]
      [] req.kind = "json_array" -> [next |-> TRUE, body |-> EmptyMap]
      [] req.kind = "not_json" /\ unparsed = "empty_object" ->
            [next |-> TRUE, body |-> EmptyMap]
      [] req.kind = "not_json" /\ unparsed = "undefined" -> [next |-> FALSE, status |-> 500]
      [] req.kind = "too_large" -> [next |-> FALSE, status |-> 413]
      [] OTHER -> [next |-> FALSE, status |-> 400]

\* the switch on eventType: the line written to the sink (label and object)
FormatAuditLog(body, serverTimestamp) ==
    LET eventType == IF "eventType" \in DOMAIN body THEN body.eventType ELSE "undefined"
        who == Prop("userId", body, "userId") @@ Prop("path", body, "path")
        stamp == "timestamp" :> serverTimestamp
        x == Chain("x", body, "additionalData", "clientX")
        y == Chain("y", body, "additionalData", "clientY")
        coordinates ==
            IF x # EmptyMap /\ y # EmptyMap /\ x.x # 0 /\ y.y # 0
            THEN "coordinates" :> <<x.x, y.y>> ELSE EmptyMap
    IN CASE eventType = "route_change" ->
              [label |-> "Route Change", payload |-> who @@ stamp]
         [] eventType = "click" ->
              [label |-> "Click Event",
               payload |-> who @@ Chain("element", body, "elementInfo", "tagName")
                           @@ Chain("className", body, "elementInfo", "className")
                           @@ Chain("text", body, "elementInfo", "text")
                           @@ coordinates @@ stamp]
         [] eventType = "form_submit" ->
              [label |-> "Form Submit",
               payload |-> who @@ Chain("formAction", body, "additionalData", "action")
                           @@ Chain("formMethod", body, "additionalData", "method")
                           @@ Chain("formFields", body, "additionalData", "formFields")
                           @@ stamp]
         [] eventType = "input_change" ->
              [label |-> "Input Change",
               payload |-> who @@ Chain("inputType", body, "additionalData", "inputType")
                           @@ Chain("inputName", body, "additionalData", "name")
                           @@ Chain("hasValue", body, "additionalData", "hasValue")
                           @@ Chain("valueLength", body, "additionalData", "valueLength")
                           @@ stamp]
         [] eventType = "custom" ->
              [label |-> "Custom Event",
               payload |-> who
                           @@ Chain("customEventType", body, "additionalData",
                                    "customEventType")
                           @@ Prop("customData", body, "additionalData")
                           @@ stamp]
         [] OTHER ->
              [label |-> "Audit Log",
               payload |-> ("serverTimestamp" :> serverTimestamp)
                           @@ [k \in DOMAIN body \cap
                                 {"userId", "path", "timestamp", "eventType",
                                  "elementInfo", "additionalData"} |-> body[k]]]

\* a variant that validates the event type: a record of a type outside the
\* enum is answered 400 and not written
AuditLogRoute_KnownTypesOnly(body, serverTimestamp) ==
    IF "eventType" \in DOMAIN body /\ body.eventType \in EventTypes
    THEN [sink |-> <<FormatAuditLog(body, serverTimestamp)>>,
          response |-> [status |-> 200,
                        json |-> [success |-> TRUE, message |-> "Audit log recorded",
                                  eventType |-> body.eventType]]]
    ELSE [sink |-> <<>>, response |-> [status |-> 400]]

\* the route handler: one line to the sink, then the response
AuditLogRoute(body, serverTimestamp) ==
    [sink |-> <<FormatAuditLog(body, serverTimestamp)>>,
     response |-> [status |-> 200,
                   json |-> [success |-> TRUE, message |-> "Audit log recorded"]
                            @@ Prop("eventType", body, "eventType")]]

\* POST /api/audit-log: the body parser, then the route
PostAuditLog(req, now, unparsed) ==
    /\ server' =
          LET parsed == JsonBodyParser(req, unparsed)
          IN [request |-> req, receivedAt |-> now]
             @@ (IF parsed.next THEN AuditLogRoute(parsed.body, now)
                 ELSE [sink |-> <<>>, response |-> [status |-> parsed.status]])
    /\ UNCHANGED <<mounted, config, location, storedUserId, listeners, effectId,
                   timers, nextTimerId, auditTimeout, value, lastEntry, nSentInStep,
                   lastChange, owed, lastEvent, lastFetch, probe>>

NextServer ==
    \E req \in Requests : \E now \in ServerClock : \E u \in UnparsedBodies :
        PostAuditLog(req, now, u)

ServerSpec == Init /\ [][NextServer]_vars

\* ================================================================ properties
PendingFor(e) == {t \in timers : t.target = e}
EntryType == lastEntry.entry.eventType
ActiveConfig == Config(config)

\* the skip rules of the filter policy, on whole class names
SkipMatch(e, cfg) ==
    \/ ToLowerCase(Dom(e).tagName) \in cfg.trackingFilters.skipTags
    \/ classList(e) \cap cfg.trackingFilters.skipClasses # {}
    \/ Dom(e).id \in cfg.trackingFilters.skipIds

\* the allow rules and the interactivity rule of the filter policy, on whole
\* class names
AllowMatch(e, cfg) ==
    /\ ~hasAttribute(e, "data-no-audit")
    /\ (cfg.trackingFilters.trackOnlyTags.isNull
        \/ ToLowerCase(Dom(e).tagName) \in cfg.trackingFilters.trackOnlyTags.items)
    /\ (cfg.trackingFilters.trackOnlyClasses.isNull
        \/ classList(e) \cap cfg.trackingFilters.trackOnlyClasses.items # {})
    /\ \/ ToLowerCase(Dom(e).tagName)
             \in {"button", "a", "input", "select", "textarea", "form"}
       \/ hasAttribute(e, "onclick")
       \/ (hasAttribute(e, "role") /\ getAttribute(e, "role") = "button")
       \/ classList(e) \cap {cls_clickable, cls_btn, cls_button} # {}

\* C1: once the component is unmounted, no input_change entry is built or sent:
\* the timers pending at teardown were cancelled.
C1_NoInputChangeAfterTeardown ==
    ~mounted => EntryType # "input_change"

\* C2 (as amended): every burst of change events on one input yields exactly one
\* input_change entry (a burst begun and not yet reported has exactly one pending
\* timer, a reported one none); the entry is built exactly debounceTime after the
\* last event of the burst, and its hasValue/valueLength are those of the
\* element's value at that moment.
C2_DebounceCoalescing ==
    /\ \A e \in Inputs : owed[e] = Cardinality(PendingFor(e))
    /\ EntryType = "input_change" =>
         /\ lastChange[lastEntry.target].wait = 0
         /\ lastEntry.entry.additionalData.valueLength = Len(value[lastEntry.target])
         /\ lastEntry.entry.additionalData.hasValue = (value[lastEntry.target] # <<>>)

\* C2, witness: an entry is built for a burst of at least two change events
C2_Witness ==
    /\ EntryType = "input_change"
    /\ lastChange[lastEntry.target].n = 2
    /\ owed[lastEntry.target] = 0

\* C2 as stated: the entry's hasValue/valueLength are those of the value the
\* element had at the last change event of the burst.
C2_ValueAsOfFinalEvent ==
    EntryType = "input_change" =>
        /\ lastEntry.entry.additionalData.valueLength
             = Len(lastChange[lastEntry.target].value)
        /\ lastEntry.entry.additionalData.hasValue
             = (lastChange[lastEntry.target].value # <<>>)

\* C3: the timers of distinct inputs are independent: while a burst on an input
\* is not yet reported, the handle kept on that input names a pending timer for
\* it, and that timer expires debounceTime after that input's own last change
\* event, whatever happened to the other inputs meanwhile.
C3_DebounceIndependence ==
    \A e \in Inputs :
        owed[e] = 1 =>
            \E t \in timers :
                /\ t.target = e
                /\ t.id = auditTimeout[e]
                /\ t.left = lastChange[e].wait

\* C3, witness: the entry of one input is built while the other input's timer,
\* set earlier or later, is still pending with its own time left
C3_Witness ==
    /\ EntryType = "input_change"
    /\ \E e \in Inputs \ {lastEntry.target} :
          /\ owed[e] = 1
          /\ lastChange[e].wait > 0
          /\ lastChange[e].n >= 1

\* C4: a click on an element that matches a skip rule (tag, class or id) is never
\* tracked, also when the element is on the allow-lists and is interactive.
C4_ExclusionPrecedence ==
    (lastEvent.type = "click" /\ SkipMatch(lastEvent.target, ActiveConfig)) =>
        /\ ~shouldTrackElement(lastEvent.target, ActiveConfig)
        /\ nSentInStep = 0

\* C4, witness: a click reached the handler on an element that matches a skip
\* rule and satisfies the allow-lists and the interactivity rule
C4_Witness ==
    /\ lastEvent.type = "click"
    /\ lastEvent.invoked = 1
    /\ SkipMatch(lastEvent.target, ActiveConfig)
    /\ AllowMatch(lastEvent.target, ActiveConfig)
    /\ ~ActiveConfig.trackingFilters.trackOnlyTags.isNull
    /\ ~ActiveConfig.trackingFilters.trackOnlyClasses.isNull

\* C5: the class rules decide on whole class names: a click that reaches the
\* handler is tracked exactly when the target matches no skip rule and passes the
\* allow rules, a class matching a list only when it is a member of it.
C5_WholeClassTokens ==
    (lastEvent.type = "click" /\ lastEvent.invoked = 1) =>
        ((nSentInStep = 1)
            <=> (~SkipMatch(lastEvent.target, ActiveConfig)
                 /\ AllowMatch(lastEvent.target, ActiveConfig)))

\* C6: the target of every click entry passed the non-skip rules: no opt-out
\* marker, on the allow-lists where they are restricted (some class of the target
\* is a member of trackOnlyClasses), and interactive.
C6_ClickTargetsPassAllowRules ==
    EntryType = "click" => AllowMatch(lastEntry.target, Config(lastEntry.cfg))

\* C7: a form_submit entry has a formValues key only if privacy.logFormValues is
\* true in the active config, and formFields lists the names of the named fields.
C7_FormValuesPrivacy ==
    EntryType = "form_submit" =>
        /\ ("formValues" \in DOMAIN lastEntry.entry.additionalData
               => Truthy(ActiveConfig.privacy, "logFormValues"))
        /\ lastEntry.entry.additionalData.formFields = <<"username", "pwd">>

\* C7, witness: a form is submitted under a config that leaves logFormValues false
C7_Witness ==
    /\ EntryType = "form_submit"
    /\ ~Truthy(ActiveConfig.privacy, "logFormValues")
    /\ "formValues" \notin DOMAIN lastEntry.entry.additionalData

\* C8: an input_change entry for a password input never has a value key; for any
\* other input it has one only if privacy.logInputValues is true in the config
\* of the handler that scheduled it.
C8_PasswordProtection ==
    EntryType = "input_change" =>
        /\ (TypeProp(lastEntry.target) = "password"
               => "value" \notin DOMAIN lastEntry.entry.additionalData)
        /\ ("value" \in DOMAIN lastEntry.entry.additionalData
               => Truthy(Config(lastEntry.cfg).privacy, "logInputValues"))

\* C8, witness: the entry of a password input is built under logInputValues = true
C8_Witness ==
    /\ EntryType = "input_change"
    /\ TypeProp(lastEntry.target) = "password"
    /\ Truthy(Config(lastEntry.cfg).privacy, "logInputValues")

\* C9: while the component is mounted, a category whose enable flag is false in
\* the active config has no listener and no entry of its event type is built.
C9_DisabledCategories ==
    mounted =>
        /\ ~ActiveConfig.enableClickTracking =>
              /\ \A i \in 1..Len(listeners) : listeners[i].type # "click"
              /\ EntryType # "click"
        /\ ~ActiveConfig.enableFormTracking =>
              /\ \A i \in 1..Len(listeners) : listeners[i].type # "submit"
              /\ EntryType # "form_submit"
        /\ ~ActiveConfig.enableInputTracking =>
              /\ \A i \in 1..Len(listeners) : listeners[i].type # "change"
              /\ EntryType # "input_change"
        /\ ~ActiveConfig.enableRouteTracking => EntryType # "route_change"

\* C10: after the cleanup of an unmount no listener of the component remains:
\* an event dispatched then invokes no handler, starts no timer, sends nothing.
C10_TeardownDeregisters ==
    ~mounted =>
        /\ listeners = <<>>
        /\ lastEvent.type # "none" =>
              /\ lastEvent.invoked = 0
              /\ lastEvent.started = 0
              /\ nSentInStep = 0

\* C10, witness: a change event is dispatched after the component, which had
\* handled change events, was unmounted
C10_Witness ==
    /\ ~mounted
    /\ nextTimerId > 1
    /\ lastEvent.type = "change"
    /\ lastEvent.target \in Inputs

\* C11 (as amended): while the tracker is mounted with route tracking enabled, a
\* step that changes the location (pathname, search or hash), or that switches
\* route tracking on, sends exactly one route_change entry whose path is the
\* location after the step and which has no elementInfo, whatever the filters and
\* the other enable flags; any other step sends no route_change entry.  (The
\* steps meant are those of the tracker and the page, not the settling of a POST
\* already sent.)
C11_RouteTracking ==
    [][(mounted /\ mounted' /\ Config(config').enableRouteTracking
          /\ lastFetch' = NoFetch) =>
          IF location' # location \/ ~Config(config).enableRouteTracking
          THEN /\ nSentInStep' = 1
               /\ lastEntry'.entry.eventType = "route_change"
               /\ lastEntry'.entry.path
                    = <<location'.pathname, location'.search, location'.hash>>
               /\ lastEntry'.entry.elementInfo = Undefined
          ELSE lastEntry'.entry.eventType # "route_change"]_vars

\* C11, witness: a navigation that changed the query string alone was reported
\* under a config that disables click tracking
C11_Witness ==
    /\ mounted
    /\ EntryType = "route_change"
    /\ location.search # ""
    /\ lastEntry.entry.path = <<location.pathname, location.search, location.hash>>
    /\ ~ActiveConfig.enableClickTracking

\* C11 as stated: with route tracking enabled, a step that leaves the location
\* unchanged (a re-render among them) sends no route_change entry.
C11_NoRecordWithoutNavigation ==
    [][(mounted /\ mounted' /\ Config(config').enableRouteTracking
          /\ location' = location /\ lastFetch' = NoFetch)
          => lastEntry'.entry.eventType # "route_change"]_vars

\* C12: with click tracking enabled, a click on a target that shouldTrackElement
\* accepts sends exactly one click entry with the target's snapshot (lower-cased
\* tag name, className) and the pointer data of the event; a click on a target
\* it rejects sends nothing.
C12_ClickTracking ==
    (lastEvent.type = "click" /\ mounted /\ ActiveConfig.enableClickTracking) =>
        IF shouldTrackElement(lastEvent.target, ActiveConfig)
        THEN /\ nSentInStep = 1
             /\ EntryType = "click"
             /\ lastEntry.target = lastEvent.target
             /\ lastEntry.entry.elementInfo.tagName
                  = ToLowerCase(Dom(lastEvent.target).tagName)
             /\ IF Dom(lastEvent.target).className = <<>>
                THEN "className" \notin DOMAIN lastEntry.entry.elementInfo
                ELSE lastEntry.entry.elementInfo.className
                       = Dom(lastEvent.target).className
             /\ lastEntry.entry.additionalData
                  = [clientX |-> 10, clientY |-> 20, button |-> 0]
        ELSE nSentInStep = 0 /\ lastEntry = NoEntry

\* C12, witness: under the default config the button of class btn was clicked
\* and reported
C12_Witness ==
    /\ config = "defaults"
    /\ lastEvent.type = "click"
    /\ lastEvent.target = "goBtn"
    /\ EntryType = "click"
    /\ lastEntry.entry.elementInfo.tagName = "button"
    /\ lastEntry.entry.elementInfo.className = cls_btn

CustomDataOf(detail) ==
    IF "customData" \in DOMAIN detail THEN detail.customData ELSE EmptyMap

\* C14: every payload dispatched while the tracker is mounted sends exactly one
\* custom entry whose customEventType is the payload's eventType and whose
\* additionalData holds every key of customData with its value, whatever the
\* keys of customData.
C14_CustomEventTypeForAnyData ==
    (lastEvent.type = "audit-custom-event" /\ mounted /\ "detail" \in DOMAIN lastEvent) =>
        /\ nSentInStep = 1
        /\ EntryType = "custom"
        /\ lastEntry.entry.additionalData.customEventType = lastEvent.detail.eventType
        /\ \A k \in DOMAIN CustomDataOf(lastEvent.detail) :
              /\ k \in DOMAIN lastEntry.entry.additionalData
              /\ lastEntry.entry.additionalData[k] = CustomDataOf(lastEvent.detail)[k]

\* C15: a custom event whose elementSelector is missing, or resolves to no
\* element of the document (it matches none, or it is no selector at all), still
\* sends exactly one custom entry, without elementInfo and with the
\* additionalData it would have had.
C15_UnresolvableSelector ==
    (/\ lastEvent.type = "audit-custom-event"
     /\ mounted
     /\ "detail" \in DOMAIN lastEvent
     /\ ("elementSelector" \in DOMAIN lastEvent.detail
            => QuerySelector(lastEvent.detail.elementSelector) = {})) =>
        /\ nSentInStep = 1
        /\ EntryType = "custom"
        /\ lastEntry.entry.elementInfo = Undefined
        /\ lastEntry.entry.additionalData
             = CustomDataOf(lastEvent.detail)
               @@ ("customEventType" :> lastEvent.detail.eventType)

\* C16: an entry handed to sendAuditLog is posted once; when the POST fails, by
\* a network error or by a non-2xx response, the failure is logged locally, the
\* entry is dropped, and the promise of sendAuditLog does not reject.
C16_TransportFailure ==
    lastFetch # NoFetch =>
        /\ lastFetch.posts = 1
        /\ ~lastFetch.rejected
        /\ lastFetch.outcome \in {"network_error", "http_error"} =>
              /\ lastFetch.consoleErrors = 1
              /\ ~lastFetch.delivered

\* s is a prefix of t
IsPrefix(s, t) == Len(s) <= Len(t) /\ \A i \in 1..Len(s) : s[i] = t[i]

\* the text without its leading and trailing blanks, character by character
Trimmed(t) ==
    LET solid == {i \in 1..Len(t) : t[i] # " "}
    IN [i \in 1..(IF solid = {} THEN 0
                  ELSE 1 + (CHOOSE h \in solid : \A j \in solid : j <= h)
                         - (CHOOSE l \in solid : \A j \in solid : l <= j)) |->
          t[i + (CHOOSE l \in solid : \A j \in solid : l <= j) - 1]]

\* C17: for every text (empty, shorter than the bound, of its length, longer) and
\* every maxTextLength >= 0, the text field of the snapshot, when present, has at
\* most maxTextLength characters and is a prefix of the trimmed text content.
C17_Truncation ==
    (probe.fn = "getElementInfo" /\ probe.returned) =>
        /\ "text" \in DOMAIN probe.result =>
              /\ Len(probe.result.text) <= probe.maxTextLength
              /\ probe.result.text # <<>>
              /\ IsPrefix(probe.result.text, Trimmed(probe.textContent))
        /\ "text" \notin DOMAIN probe.result =>
              (probe.maxTextLength = 0 \/ Trimmed(probe.textContent) = <<>>)

\* C17, witness: a text longer than the bound, with blanks around it, was cut
C17_Witness ==
    /\ probe.fn = "getElementInfo"
    /\ probe.returned
    /\ probe.textContent = <<" ", "a", "b">>
    /\ probe.maxTextLength = 1
    /\ probe.result = [text |-> <<"a">>]

\* the `config' prop a config object was merged from
UserConfigOf(ref) ==
    CASE ref = "defaults" -> EmptyMap
      [] ref = "strict" -> StrictConfig
      [] ref = "off" -> OffConfig
      [] ref = "partial" -> PartialConfig
      [] ref = "routeOnly" -> RouteOnlyConfig
      [] ref = "formSkip" -> FormSkipConfig
      [] ref = "inputSkip" -> InputSkipConfig

\* C18: the active config is the caller's options laid over the defaults field
\* by field: every field the caller does not supply keeps its default, the
\* fields inside trackingFilters and privacy included.
C18_FieldByFieldMerge ==
    mounted =>
        /\ \A k \in DOMAIN defaultAuditConfig \ {"trackingFilters", "privacy"} :
              ActiveConfig[k] = IF k \in DOMAIN UserConfigOf(config)
                                THEN UserConfigOf(config)[k]
                                ELSE defaultAuditConfig[k]
        /\ \A g \in {"trackingFilters", "privacy"} :
              \A f \in DOMAIN defaultAuditConfig[g] :
                  /\ f \in DOMAIN ActiveConfig[g]
                  /\ ActiveConfig[g][f]
                       = IF g \in DOMAIN UserConfigOf(config)
                            /\ f \in DOMAIN UserConfigOf(config)[g]
                         THEN UserConfigOf(config)[g][f]
                         ELSE defaultAuditConfig[g][f]

\* C20: the userId of every entry is the value stored under 'userId' when the
\* entry is built, if one is stored and is not empty, and "anonymous" otherwise;
\* it is never empty.
C20_IdentitySentinel ==
    lastEntry # NoEntry =>
        /\ lastEntry.entry.userId
             = (IF storedUserId = "null" \/ storedUserId = ""
                THEN "anonymous" ELSE storedUserId)
        /\ lastEntry.entry.userId # ""
        /\ lastEntry.entry.userId # "null"

\* C20, witness: an entry was built by a timer callback while the stored user
\* id was the empty string
C20_Witness ==
    /\ EntryType = "input_change"
    /\ storedUserId = ""
    /\ lastEntry.entry.userId = "anonymous"

\* the label of the formatter an event type is routed to
FormatterOf(body) ==
    IF "eventType" \notin DOMAIN body THEN "Audit Log"
    ELSE CASE body.eventType = "route_change" -> "Route Change"
           [] body.eventType = "click" -> "Click Event"
           [] body.eventType = "form_submit" -> "Form Submit"
           [] body.eventType = "input_change" -> "Input Change"
           [] body.eventType = "custom" -> "Custom Event"
           [] OTHER -> "Audit Log"

\* the time an emission is stamped with
StampOf(emission) ==
    IF emission.label = "Audit Log" THEN emission.payload.serverTimestamp
    ELSE emission.payload.timestamp

\* C21 (as amended): every POST /api/audit-log whose body is a JSON object, with
\* whatever fields, is written to the sink exactly once, by the formatter of its
\* eventType (the generic one for any other or no eventType), stamped with the
\* server's receipt time, and is answered 200 {success: true, message,
\* eventType} with the eventType of the request.
C21_CollectionEndpoint ==
    server.request.kind = "json_object" =>
        /\ Len(server.sink) = 1
        /\ server.sink[1].label = FormatterOf(server.request.body)
        /\ StampOf(server.sink[1]) = server.receivedAt
        /\ server.response.status = 200
        /\ server.response.json.success
        /\ server.response.json.message = "Audit log recorded"
        /\ Prop("eventType", server.response.json, "eventType")
             = Prop("eventType", server.request.body, "eventType")

\* C21, witness: a record of an unknown event type, which carries a timestamp
\* of its own, was written by the generic formatter with the receipt time
C21_Witness ==
    /\ server.request.kind = "json_object"
    /\ Prop("eventType", server.request.body, "eventType") = [eventType |-> "page_view"]
    /\ Prop("timestamp", server.request.body, "timestamp") = [timestamp |-> "09:59:59Z"]
    /\ server.receivedAt # "09:59:59Z"
    /\ server.sink[1].label = "Audit Log"
    /\ server.sink[1].payload.serverTimestamp = server.receivedAt
    /\ server.response.json.eventType = "page_view"

\* C21 as stated: every POST is written to the sink exactly once and answered
\* with success; none is rejected for its content.
C21_NoRequestRejected ==
    server # NoRequest =>
        /\ Len(server.sink) = 1
        /\ server.response.status = 200

\* C22: in every reachable state, whatever change events, expiries, re-renders
\* and teardowns came before, each input has at most one pending debounce timer,
\* and the handle kept on the input names it.
C22_OneTimerPerElement ==
    \A e \in Inputs :
        /\ Cardinality(PendingFor(e)) <= 1
        /\ \A t \in PendingFor(e) : t.id = auditTimeout[e]

\* C22, witness: a change event arrived while the timer of an earlier one was
\* pending, and one timer, the new one, is pending for the input
C22_Witness ==
    /\ lastEvent.type = "change"
    /\ lastEvent.target \in Inputs
    /\ lastEvent.started = 1
    /\ lastChange[lastEvent.target].n = 2
    /\ Cardinality(PendingFor(lastEvent.target)) = 1
    /\ \A t \in PendingFor(lastEvent.target) : t.id = nextTimerId - 1

\* the listeners registered for a category
ListenersFor(type) == SelectSeq(listeners, LAMBDA l : l.type = type)

\* C23: in every reachable state, whatever mounts, re-renders and unmounts came
\* before, at most one listener is registered for each of click, submit, change
\* and audit-custom-event, so that an event invokes at most one handler and
\* yields at most one entry.
C23_OneListenerPerCategory ==
    /\ \A type \in {"click", "submit", "change", "audit-custom-event"} :
          Len(ListenersFor(type)) <= 1
    /\ lastEvent.type # "none" => (lastEvent.invoked <= 1 /\ nSentInStep <= 1)

\* C23, witness: after a render with another config than the one a pending timer
\* was scheduled under, a click is handled by the one click listener, which
\* holds the config of the latest render
C23_Witness ==
    /\ mounted
    /\ \E t \in timers : t.cfg # config
    /\ lastEvent.type = "click"
    /\ lastEvent.invoked = 1
    /\ nSentInStep = 1
    /\ \A type \in {"click", "submit", "change", "audit-custom-event"} :
          /\ Len(ListenersFor(type)) = 1
          /\ ListenersFor(type)[1].cfg = config

\* C24: an input_change entry shows the state of the moment its timer expires,
\* not that of the change event: hasValue, valueLength and value (when logged)
\* are those of the element's value then, its timestamp is that moment and its
\* path is the location of that moment.
C24_RecordReflectsExpiry ==
    EntryType = "input_change" =>
        /\ lastEntry.entry.path
             = <<location.pathname, location.search, location.hash>>
        /\ lastEntry.entry.timestamp = 0
        /\ lastChange[lastEntry.target].wait = 0
        /\ lastEntry.entry.additionalData.hasValue = (value[lastEntry.target] # <<>>)
        /\ lastEntry.entry.additionalData.valueLength = Len(value[lastEntry.target])
        /\ "value" \in DOMAIN lastEntry.entry.additionalData
              => lastEntry.entry.additionalData.value = value[lastEntry.target]

\* C24, witness: the user changed the field on the form page, typed on and left
\* for the other page before the timer expired: the entry bears the other page
\* and the value typed last
C24_Witness ==
    /\ EntryType = "input_change"
    /\ ~OnFormPage
    /\ lastEntry.entry.path = <<"/page2", "", "">>
    /\ lastChange[lastEntry.target].value # value[lastEntry.target]
    /\ "value" \in DOMAIN lastEntry.entry.additionalData
    /\ lastEntry.entry.additionalData.value = value[lastEntry.target]

\* C25: no error raised inside a listener while it handles an event leaves the
\* listener, whatever the event: a click on any element, a payload with any
\* selector, an event without payload.
C25_FaultContainment ==
    lastEvent.type # "none" => lastEvent.uncaught = 0

\* the ancestors of an element that shouldTrackElement accepts
TrackableAncestors(e, cfg) ==
    {Ancestors(e)[i] : i \in {j \in 1..Len(Ancestors(e)) :
                                 shouldTrackElement(Ancestors(e)[j], cfg)}}

\* C26: the click filter looks at the event target alone: a click on a target
\* it rejects sends no entry, also when the target lies inside an element the
\* filter would accept; and a click that is reported is reported for its target.
C26_ClickFilterTargetOnly ==
    (lastEvent.type = "click" /\ lastEvent.invoked = 1) =>
        /\ ~shouldTrackElement(lastEvent.target, ActiveConfig)
              => (nSentInStep = 0 /\ lastEntry = NoEntry)
        /\ nSentInStep = 1 => lastEntry.target = lastEvent.target

\* C26, witness: under the default config the icon inside the button of class
\* btn was clicked: the button would be accepted, the icon is not, nothing was sent
C26_Witness ==
    /\ config = "defaults"
    /\ lastEvent.type = "click"
    /\ lastEvent.invoked = 1
    /\ lastEvent.target = "icon"
    /\ ~shouldTrackElement("icon", ActiveConfig)
    /\ "goBtn" \in TrackableAncestors("icon", ActiveConfig)
    /\ nSentInStep = 0

C28_TimerKeepsConfig ==
    [][/\ \A t \in timers' :
             \/ \E u \in timers : u.id = t.id /\ u.cfg = t.cfg /\ u.target = t.target
             \/ /\ lastEvent'.type = "change"
                /\ t.id = nextTimerId
                /\ t.cfg = config
                /\ t.left = Config(config).debounceTime
       /\ (listeners' # listeners \/ mounted' # mounted \/ config' # config)
             => timers' = timers
       /\ \A u \in timers :
             (u.left = 0 /\ u \notin timers') =>
                 /\ lastEntry'.entry.eventType = "input_change"
                 /\ lastEntry'.target = u.target
                 /\ ("value" \in DOMAIN lastEntry'.entry.additionalData)
                      = (Truthy(Config(u.cfg).privacy, "logInputValues")
                         /\ TypeProp(u.target) # "password")
                 /\ lastEntry'.entry.elementInfo
                      = getElementInfo(u.target, Config(u.cfg))]_vars

\* C28, witness: the callback of a timer scheduled while values were logged ran
\* after a render had switched logInputValues off, and the entry has the value
C28_Witness ==
    /\ mounted
    /\ EntryType = "input_change"
    /\ lastEntry.cfg # config
    /\ ~Truthy(ActiveConfig.privacy, "logInputValues")
    /\ "value" \in DOMAIN lastEntry.entry.additionalData
    /\ lastEntry.entry.additionalData.value = value[lastEntry.target]

\* C29: the pending timer of an input is found by whichever handler is
\* registered: a change event that continues a burst cancels the timer the
\* earlier event of the burst scheduled, also when a render has replaced the
\* handler (and its config) since, so that one timer, the new one, is pending
\* and the burst still owes exactly one entry.
C29_DebounceSurvivesReregistration ==
    (/\ lastEvent.type = "change"
     /\ lastEvent.invoked = 1
     /\ lastEvent.target \in Inputs
     /\ lastChange[lastEvent.target].n = 2) =>
        /\ Cardinality(lastEvent.cancelled) = 1
        /\ PendingFor(lastEvent.target)
             = {[id |-> nextTimerId - 1, target |-> lastEvent.target, cfg |-> config,
                 left |-> ActiveConfig.debounceTime]}
        /\ owed[lastEvent.target] = 1

\* C29, witness: a change event handled under the config of the latest render
\* cancelled the timer that a handler of another config had scheduled earlier in
\* the burst
C29_Witness ==
    /\ mounted
    /\ lastEvent.type = "change"
    /\ lastEvent.target \in Inputs
    /\ lastChange[lastEvent.target].n = 2
    /\ lastEvent.cancelled # {}
    /\ config \notin lastEvent.cancelled
    /\ Cardinality(PendingFor(lastEvent.target)) = 1
    /\ owed[lastEvent.target] = 1

\* C30: while the tracker is mounted the audit-custom-event listener is
\* registered, whatever the enable flags, and every custom event dispatched sends
\* a custom entry, whatever the filter policy says of the element its selector
\* resolves to.
C30_CustomEventsUngated ==
    mounted =>
        /\ Len(ListenersFor("audit-custom-event")) = 1
        /\ lastEvent.type = "audit-custom-event" =>
              /\ lastEvent.invoked = 1
              /\ nSentInStep = 1
              /\ EntryType = "custom"

\* C31: a custom event dispatched while the tracker is not mounted (before the
\* first mount or after an unmount) invokes no handler and sends nothing, and it
\* is kept nowhere: the mount that follows sends its route_change entry, if
\* route tracking is enabled, and no custom entry.
C31_CustomEventsLostWhileUnmounted ==
    [][/\ (~mounted' /\ lastEvent'.type = "audit-custom-event") =>
             /\ lastEvent'.invoked = 0
             /\ nSentInStep' = 0
             /\ lastEntry' = NoEntry
             /\ listeners' = <<>>
       /\ (~mounted /\ mounted') =>
             /\ lastEntry'.entry.eventType # "custom"
             /\ nSentInStep' = (IF Config(config').enableRouteTracking THEN 1 ELSE 0)]_vars

\* C31, witness: after the tracker, which had handled change events, was
\* unmounted, a custom event was dispatched and no handler ran
C31_Witness ==
    /\ ~mounted
    /\ nextTimerId > 1
    /\ lastEvent.type = "audit-custom-event"
    /\ lastEvent.invoked = 0
    /\ nSentInStep = 0

\* C32: a form_submit entry built under privacy.logFormValues = true has a
\* formValues object with one key per named field of the form, a field of type
\* password included, each holding the field's current value; an input_change
\* entry of a password field, by contrast, never has a value key.
C32_FormValuesIncludePasswords ==
    /\ (EntryType = "form_submit"
           /\ Truthy(Config(lastEntry.cfg).privacy, "logFormValues")) =>
          LET data == lastEntry.entry.additionalData
              cs == FormControls(lastEntry.target)
              named == {cs[i] : i \in {j \in 1..Len(cs) :
                           /\ ToLowerCase(Dom(cs[j]).tagName)
                                  \in {"input", "select", "textarea"}
                           /\ NameProp(cs[j]) # ""}}
          IN /\ "formValues" \in DOMAIN data
             /\ DOMAIN data.formValues = {NameProp(f) : f \in named}
             /\ \A f \in named :
                    data.formValues[NameProp(f)] =
                        (IF f \in Inputs THEN value[f] ELSE <<>>)
    /\ (EntryType = "input_change" /\ TypeProp(lastEntry.target) = "password") =>
          "value" \notin DOMAIN lastEntry.entry.additionalData

\* C32, witness: the form with the password field is submitted under
\* logFormValues = true, after the user edited the other field, and the entry
\* carries the password
C32_Witness ==
    /\ EntryType = "form_submit"
    /\ Truthy(Config(lastEntry.cfg).privacy, "logFormValues")
    /\ TypeProp("pwdInput") = "password"
    /\ "pwdInput" \in {FormControls(lastEntry.target)[i] :
                          i \in 1..Len(FormControls(lastEntry.target))}
    /\ lastEntry.entry.additionalData.formValues =
           [username |-> <<"a", "b">>, pwd |-> <<"p", "w">>]

====
